---- MODULE Spec2Model ----
(***************************************************************************)
(* The turn controller of devon_agent/agents/default/agent.py:             *)
(* TaskAgent.predict, one turn per step, with the failures its             *)
(* collaborators (editor view, command docs, prompt assembly, model query, *)
(* response parser, logger) can raise inside it.                           *)
(*                                                                         *)
(* Text is a sequence of tokens; the failure marker is one token, so       *)
(* `marker in text` is membership and `a + b` is concatenation.            *)
(* Temperatures are counted in tenths (0.6 is 6, the 0.2 step is 2).       *)
(***************************************************************************)
EXTENDS Integers, Sequences, FiniteSets, TLC

\* ------------------------------------------------------------------ bounds
MaxTurns == 2
MaxLongTurns == 5
MaxFaults == 1
MaxNotes == 1
MaxChars == 5
MaxPageSize == 3

\* --------------------------------------------------------------- constants
TruncateCount == 6
TempStep == 2
TempCap == 8

MARKER == "Failed to edit file"
None == <<"<None>">>
AgentName == "Devon"

supported_models == {"gpt4-o", "claude-opus"}
Models == supported_models \cup {"llama"}
InitialTemperatures == {6, 8}

Observations == {<<"ok">>, <<MARKER>>}
Reply == <<"reply">>
Outputs == {Reply, <<MARKER>>}
Notes == {<<"note">>}
Scratchpads == {None, <<"s1">>, <<"s2">>}
FaultMessage == <<"boom">>

\* ---------------------------------------------------------- python helpers
\* `if x:` on an Optional[str]
Truthy(x) == x # None /\ x # <<>>

\* `"Failed to edit file" in x`
ContainsMarker(x) == \E i \in 1..Len(x) : x[i] = MARKER

\* `xs[:-n]`
DropLast(xs, n) == IF Len(xs) > n THEN SubSeq(xs, 1, Len(xs) - n) ELSE <<>>

UserRecord(content) ==
    [role |-> "user", content |-> content, agent |-> AgentName]

AssistantRecord(output, thought, action) ==
    [role |-> "assistant", content |-> output, thought |-> thought,
     action |-> action, agent |-> AgentName]

ErrorEvent(content) ==
    [type |-> "Error", content |-> content, producer |-> AgentName,
     consumer |-> "none"]

\* ------------------------------------------------------------------ faults
\* The places of the try block where a collaborator can raise, in order.
Points == <<"render", "docs", "assemble", "query", "parse", "commit">>
PointIndex(p) ==
    CASE p = "render" -> 1 [] p = "docs" -> 2 [] p = "assemble" -> 3
      [] p = "query" -> 4 [] p = "parse" -> 5 [] p = "commit" -> 6
Kinds == {"RuntimeError", "RetryError", "Exception", "KeyboardInterrupt"}
NoFault == [kind |-> "none", at |-> "none"]
Faults == [kind : Kinds, at : {Points[i] : i \in 1..Len(Points)}]

\* The fault strikes at point p.
At(fault, p) == fault # NoFault /\ fault.at = p
\* Control reaches past point p.
Passes(fault, p) == fault = NoFault \/ PointIndex(fault.at) > PointIndex(p)

\* What parse_response gives back, or that it raises.
ParseRaises == [raises |-> TRUE, thought |-> <<>>, action |-> <<>>, scratchpad |-> None]
Parsed(thought, action, pad) ==
    [raises |-> FALSE, thought |-> thought, action |-> action, scratchpad |-> pad]
Parses ==
    {ParseRaises, Parsed(<<>>, <<"act">>, <<"s1">>), Parsed(<<"think">>, <<>>, None)}
    \cup {Parsed(<<"think">>, <<"act">>, pad) : pad \in Scratchpads}

\* --------------------------------------------------------------- outcomes
NoText == <<>>
Returned(thought, action, output) ==
    [tag |-> "returned", exc |-> "none", thought |-> thought, action |-> action,
     output |-> output]
Raised(exc) ==
    [tag |-> "raised", exc |-> exc, thought |-> NoText, action |-> NoText,
     output |-> NoText]
NoResult ==
    [tag |-> "none", exc |-> "none", thought |-> NoText, action |-> NoText,
     output |-> NoText]

\* ------------------------------------------------------- the editor view
\* A file's content is a sequence of characters, NL the line break.
NL == "\n"
Chars == {"a", NL}
Contents == UNION {[1..n -> Chars] : n \in 0..MaxChars}
PageSizes == 1..MaxPageSize
Path == "main.py"

Min(a, b) == IF a <= b THEN a ELSE b

\* `xs[a:b]` for 0 <= a <= b
Slice(xs, a, b) == SubSeq(xs, a + 1, Min(b, Len(xs)))

\* `s.splitlines()`: a line ends at each break; what follows the last break is
\* a line only if it is not empty.
RECURSIVE SplitFrom(_, _, _)
SplitFrom(s, i, line) ==
    IF i > Len(s) THEN (IF line = <<>> THEN <<>> ELSE <<line>>)
    ELSE IF s[i] = NL THEN <<line>> \o SplitFrom(s, i + 1, <<>>)
    ELSE SplitFrom(s, i + 1, Append(line, s[i]))
splitlines(s) == SplitFrom(s, 1, <<>>)

\* `str(n)` for n >= 0, as its decimal digits
Digit(d) == <<"0", "1", "2", "3", "4", "5", "6", "7", "8", "9">>[d + 1]
RECURSIVE str(_)
str(n) == IF n < 10 THEN <<Digit(n)>> ELSE str(n \div 10) \o <<Digit(n % 10)>>

\* `s.zfill(width)`
zfill(s, width) ==
    IF Len(s) >= width THEN s ELSE [i \in 1..(width - Len(s)) |-> "0"] \o s

\* line 54
LastIdx(all_lines_len, page_size) == all_lines_len \div page_size

\* lines 55-58
ContentLen(all_lines_len, page, page_size) ==
    IF page = LastIdx(all_lines_len, page_size) THEN all_lines_len % page_size
    ELSE page_size

\* StartIdx counting the lines from one.
StartIdxFromOne(page, page_size) == page * page_size + 1

\* line 60
StartIdx(page, page_size) == page * page_size

\* NumberedLine numbering within the window.
NumberedLineInWindow(i, start_idx, line) ==
    [number |-> zfill(str(i), 4), line |-> line]

\* lines 62-64: the numbered lines of the window, i counted from 0
NumberedLine(i, start_idx, line) ==
    [number |-> zfill(str(i + start_idx), 4), line |-> line]

\* lines 48-70: the banner's fields and the window's lines
format_editor_entry(k, v, page_size) ==
    LET content_lines == splitlines(v.lines)
        all_lines_len == Len(content_lines)
        content_len == ContentLen(all_lines_len, v.page, page_size)
        start_idx == StartIdx(v.page, page_size)
        lines == Slice(content_lines, start_idx, start_idx + content_len)
    IN  [path |-> k,
         startline |-> start_idx,
         endline |-> start_idx + content_len,
         total |-> all_lines_len,
         window_lines |->
            [i \in 1..Len(lines) |-> NumberedLine(i - 1, start_idx, lines[i])]]

\* lines 72-75, for an editor holding one file
convert_editor_to_view(file, page_size) ==
    <<format_editor_entry(Path, file, page_size)>>

\* The file of the agent's sessions: three lines, on its first page of two.
SessionFile == [lines |-> <<"a", NL, "a", NL, "a">>, page |-> 0]
SessionPageSize == 2

\* TaskAgent.current_model before the first turn builds one.
NoModel == [model_name |-> "none", temperature |-> 0]
ModelArguments(name, t) == [model_name |-> name, temperature |-> t]

\* -------------------------------------------------- the steps of predict
\* lines 95-97: the pending note is appended to the observation
InjectInterrupt(obs, note) ==
    IF Truthy(note) THEN obs \o <<". also ">> \o note ELSE obs

\* ClearInterrupt without line 97.
ClearInterruptNever(note) == note

\* line 97: the note is cleared once used
ClearInterrupt(note) == IF Truthy(note) THEN <<>> ELSE note

\* AppendObservation left for after the query.
AppendObservationSkipped(history, observation) == history

\* AppendObservation putting the record in front.
AppendObservationInFront(history, observation) ==
    <<UserRecord(observation)>> \o history

\* lines 104-106
AppendObservation(history, observation) ==
    Append(history, UserRecord(observation))

\* lines 113-123: the two contents looked at, and the test on them
LastObservation(history) ==
    IF Len(history) > 2 THEN history[Len(history)].content ELSE None
SecondLastObservation(history) ==
    IF Len(history) > 2 THEN history[Len(history) - 2].content ELSE None
Stagnant(history) ==
    /\ Truthy(LastObservation(history))
    /\ Truthy(SecondLastObservation(history))
    /\ ContainsMarker(LastObservation(history))
    /\ ContainsMarker(SecondLastObservation(history))

\* Truncate cutting one record short.
TruncateFive(history) == DropLast(history, TruncateCount - 1)

\* line 124
Truncate(history) == DropLast(history, TruncateCount)

\* Escalate without the cap of line 126.
EscalateUncapped(t) == t + TempStep

\* lines 125-127
Escalate(t) == t + (IF t < TempCap THEN TempStep ELSE 0)

\* ParseFails with line 194 testing the thought alone.
ParseFailsOnThoughtOnly(parsed) == parsed.raises \/ ~Truthy(parsed.thought)

\* ParseFails without the test of line 194.
ParseFailsOnRaiseOnly(parsed) == parsed.raises

\* lines 141-149, 166-178: the last user prompt, by what goes into the template
LastUserPrompt(name, history, view, pad) ==
    IF name = "claude-opus"
    THEN [template |-> "anthropic_last_user_prompt_template_v3",
          history |-> history, editor |-> view, scratchpad |-> pad]
    ELSE [template |-> "openai_last_user_prompt_template_v3",
          history |-> <<>>, editor |-> view, scratchpad |-> pad]

\* line 164
\* Messages handing over the prompt alone, as for the other backend.
MessagesPromptOnly(name, history, prompt) ==
    <<[role |-> "user", content |-> prompt]>>

IsTurnRecord(entry) == entry.role = "user" \/ entry.role = "assistant"

\* lines 151, 164, 180: the messages handed to query
Messages(name, history, prompt) ==
    IF name = "claude-opus"
    THEN <<[role |-> "user", content |-> prompt]>>
    ELSE SelectSeq(history, IsTurnRecord) \o <<[role |-> "user", content |-> prompt]>>

\* lines 187-195: the parse is rejected
ParseFails(parsed) ==
    parsed.raises \/ ~Truthy(parsed.thought) \/ ~Truthy(parsed.action)

\* StoreScratchpad adding to the stored value.
StoreScratchpadMerged(stored, parsed) ==
    IF ~parsed.raises /\ Truthy(parsed.scratchpad)
    THEN (IF stored = None THEN parsed.scratchpad ELSE stored \o parsed.scratchpad)
    ELSE stored

\* lines 188-190
StoreScratchpad(stored, parsed) ==
    IF ~parsed.raises /\ Truthy(parsed.scratchpad) THEN parsed.scratchpad ELSE stored

\* Leaves with line 191 catching BaseException.
LeavesCatchingAll(fault, parsed) ==
    IF fault # NoFault /\ PointIndex(fault.at) < PointIndex("parse") THEN fault.kind
    ELSE IF At(fault, "parse") THEN "Hallucination"
    ELSE IF ParseFails(parsed) THEN "Hallucination"
    ELSE IF At(fault, "commit") THEN fault.kind
    ELSE "none"

\* The exception that leaves the try body (lines 99-220), "none" if it returns.
Leaves(fault, parsed) ==
    IF fault # NoFault /\ PointIndex(fault.at) < PointIndex("parse") THEN fault.kind
    ELSE IF At(fault, "parse")
         THEN (IF fault.kind = "KeyboardInterrupt" THEN fault.kind ELSE "Hallucination")
    ELSE IF ParseFails(parsed) THEN "Hallucination"
    ELSE IF At(fault, "commit") THEN fault.kind
    ELSE "none"

\* lines 225-270: the handlers that write to the event log
Logged(exc) == exc \in {"RuntimeError", "RetryError", "Exception"}
\* LogError with the retry handler returning without its append.
LogErrorNotRetry(log, exc) ==
    IF Logged(exc) /\ exc # "RetryError" THEN Append(log, ErrorEvent(FaultMessage))
    ELSE log

LogError(log, exc) ==
    IF Logged(exc) THEN Append(log, ErrorEvent(FaultMessage)) ELSE log

\* lines 220-270: what predict hands to its caller
Outcome(exc, thought, action, output) ==
    CASE exc = "none" -> Returned(thought, action, output)
      [] exc = "KeyboardInterrupt" -> Raised(exc)
      [] exc = "Hallucination" ->
            Returned(<<"hallucination">>, <<"hallucination">>,
                     <<"Incorrect response format">>)
      [] exc = "RuntimeError" ->
            Returned(<<"Exit due to runtime error: ">> \o FaultMessage,
                     <<"exit_error">>,
                     <<"exit due to runtime error: ">> \o FaultMessage)
      [] exc = "RetryError" ->
            Returned(<<"Exit due to retry error: ">> \o FaultMessage,
                     <<"exit_api">>,
                     <<"exit due to retry error: ">> \o FaultMessage)
      [] OTHER ->
            Returned(<<"Exit due to exception: ">> \o FaultMessage,
                     <<"exit_error">>,
                     <<"exit due to exception: ">> \o FaultMessage)

VARIABLES
    model,          \* Agent.model
    temperature,    \* Agent.temperature, in tenths
    chat_history,   \* Agent.chat_history
    interrupt,      \* Agent.interrupt
    scratchpad,     \* Agent.scratchpad
    current_model,  \* TaskAgent.current_model: the args it was built with
    event_log,      \* session.event_log
    queries,        \* the temperatures of the queries made so far, in order
    turns,          \* invocations of predict so far
    faults,         \* turns so far in which a collaborator raised
    notes,          \* interrupt notes set so far
    editor,         \* session.state.editor.files: the one file, lines and page
    PAGE_SIZE,      \* session.state.editor.PAGE_SIZE
    extracted,      \* the scratchpad of the latest parse that carried one
    views,          \* page -> what _format_editor_entry gave for it, so far
    at_return,      \* the state is as the most recent predict left it
    last            \* the most recent invocation of predict: what it was given,
                    \* the state it started from and passed through, its result

vars == <<model, temperature, chat_history, interrupt, scratchpad, current_model,
          event_log, queries, turns, faults, notes, editor, PAGE_SIZE, views,
          extracted, at_return, last>>

NoTurn ==
    [observation |-> <<>>, history0 |-> <<>>, historyObs |-> <<>>,
     interrupt0 |-> <<>>, scratchpad0 |-> None, events0 |-> <<>>,
     appended |-> FALSE, fired |-> FALSE, queried |-> 0, queryTemperature |-> 0,
     historyQuery |-> <<>>, fault |-> NoFault, parseRun |-> FALSE,
     parsed |-> ParseRaises, hallucinated |-> FALSE, result |-> NoResult,
     given |-> <<>>, queries0 |-> <<>>, messages |-> <<>>, previous |-> <<>>]

AgentInit ==
    /\ model \in Models
    /\ temperature \in InitialTemperatures
    /\ chat_history = <<>>
    /\ interrupt = <<>>
    /\ scratchpad = None
    /\ current_model = NoModel
    /\ event_log = <<>>
    /\ queries = <<>>
    /\ turns = 0
    /\ faults = 0
    /\ notes = 0
    /\ extracted = None
    /\ at_return = FALSE
    /\ last = NoTurn

Init ==
    /\ AgentInit
    /\ editor = SessionFile
    /\ PAGE_SIZE = SessionPageSize
    /\ views = <<>>

\* PredictUnsupported with the test of line 84 made where the backend is
\* selected (line 129), inside the try block.
PredictUnsupportedLate ==
    /\ turns < MaxTurns
    /\ model \notin supported_models
    /\ \E obs \in Observations :
          LET h1 == AppendObservation(chat_history, InjectInterrupt(obs, interrupt))
          IN  /\ chat_history' = h1
              /\ last' = [NoTurn EXCEPT
                              !.observation = InjectInterrupt(obs, interrupt),
                              !.history0 = chat_history, !.historyObs = h1,
                              !.historyQuery = h1,
                              !.interrupt0 = interrupt, !.scratchpad0 = scratchpad,
                              !.events0 = event_log, !.appended = TRUE,
                              !.given = obs, !.queries0 = queries,
                              !.result = Outcome("Exception", <<>>, <<>>, <<>>)]
    /\ interrupt' = ClearInterrupt(interrupt)
    /\ event_log' = LogError(event_log, "Exception")
    /\ turns' = turns + 1
    /\ at_return' = TRUE
    /\ UNCHANGED <<model, temperature, scratchpad, current_model, queries, faults,
                   notes, editor, PAGE_SIZE, views, extracted>>

\* lines 84-85: the model is not supported, predict raises before the try block
PredictUnsupported ==
    /\ turns < MaxTurns
    /\ model \notin supported_models
    /\ turns' = turns + 1
    /\ at_return' = TRUE
    /\ last' = [NoTurn EXCEPT
                    !.history0 = chat_history, !.historyObs = chat_history,
                    !.historyQuery = chat_history,
                    !.interrupt0 = interrupt, !.scratchpad0 = scratchpad,
                    !.events0 = event_log, !.queries0 = queries,
                    !.result = Raised("Exception")]
    /\ UNCHANGED <<model, temperature, chat_history, interrupt, scratchpad,
                   current_model, event_log, queries, faults, notes, editor,
                   PAGE_SIZE, views, extracted>>

\* lines 77-270: one turn with a supported model
Predict(obs, fault, output, parsed) ==
    /\ model \in supported_models
    /\ LET observation == InjectInterrupt(obs, interrupt)
           view == convert_editor_to_view(editor, PAGE_SIZE)
           appended == Passes(fault, "render")
           h1 == IF appended THEN AppendObservation(chat_history, observation)
                 ELSE chat_history
           fired == Passes(fault, "docs") /\ Stagnant(h1)
           h2 == IF fired THEN Truncate(h1) ELSE h1
           args == ModelArguments(model, IF fired THEN Escalate(temperature)
                                         ELSE temperature)
           queried == Passes(fault, "assemble")
           parsedOk == Passes(fault, "parse") /\ ~ParseFails(parsed)
           h3 == IF parsedOk
                 THEN Append(h2, AssistantRecord(output, parsed.thought, parsed.action))
                 ELSE h2
           exc == Leaves(fault, parsed)
           messages == IF queried
                       THEN Messages(model, h2,
                                     LastUserPrompt(model, h2, view, scratchpad))
                       ELSE <<>>
       IN  /\ current_model' = args
           /\ interrupt' = ClearInterrupt(interrupt)
           /\ chat_history' = h3
           /\ scratchpad' = IF Passes(fault, "parse")
                            THEN StoreScratchpad(scratchpad, parsed)
                            ELSE scratchpad
           /\ queries' = IF queried THEN Append(queries, args.temperature)
                         ELSE queries
           /\ event_log' = LogError(event_log, exc)
           /\ extracted' = IF Passes(fault, "parse") /\ ~parsed.raises
                               /\ Truthy(parsed.scratchpad)
                            THEN parsed.scratchpad ELSE extracted
           /\ last' = [observation |-> observation,
                       previous |-> last.observation,
                       given |-> obs,
                       queries0 |-> queries,
                       messages |-> messages,
                       history0 |-> chat_history,
                       historyObs |-> h1,
                       interrupt0 |-> interrupt,
                       scratchpad0 |-> scratchpad,
                       events0 |-> event_log,
                       appended |-> appended,
                       fired |-> fired,
                       queried |-> IF queried THEN 1 ELSE 0,
                       queryTemperature |-> args.temperature,
                       historyQuery |-> h2,
                       fault |-> fault,
                       parseRun |-> Passes(fault, "query"),
                       parsed |-> parsed,
                       hallucinated |-> exc = "Hallucination",
                       result |-> Outcome(exc, parsed.thought, parsed.action, output)]
    /\ turns' = turns + 1
    /\ at_return' = TRUE
    /\ faults' = IF fault = NoFault THEN faults ELSE faults + 1
    /\ UNCHANGED <<model, temperature, notes, editor, PAGE_SIZE, views>>

\* The parses that make a difference: parse_response is run only when the query
\* returns, and a fault at the commit needs the commit to be reached.
ParsesFor(fault) ==
    IF At(fault, "commit") THEN {p \in Parses : ~ParseFails(p)}
    ELSE IF Passes(fault, "parse") THEN Parses
    ELSE {ParseRaises}

Turn ==
    /\ turns < MaxTurns
    /\ \E obs \in Observations, parsed \in Parses :
          Predict(obs, NoFault, Reply, parsed)

FaultyTurn ==
    /\ turns < MaxTurns
    /\ faults < MaxFaults
    /\ \E obs \in Observations, fault \in Faults :
          \E parsed \in ParsesFor(fault) : Predict(obs, fault, Reply, parsed)

\* line 35: the session leaves a note for the agent's next turn
SetInterrupt ==
    /\ notes < MaxNotes
    /\ \E note \in Notes : interrupt' = note
    /\ notes' = notes + 1
    /\ at_return' = FALSE
    /\ UNCHANGED <<model, temperature, chat_history, scratchpad, current_model,
                   event_log, queries, turns, faults, last, editor, PAGE_SIZE,
                   views, extracted>>

Next == PredictUnsupported \/ Turn \/ FaultyTurn \/ SetInterrupt

Spec == Init /\ [][Next]_vars

\* A longer conversation of a supported model whose collaborators do not raise
\* and whose replies carry no scratchpad, and may hold the marker themselves:
\* the histories the recovery step meets.
LongParses == {p \in Parses : p.scratchpad = None}

LongInit == Init /\ model \in supported_models

LongTurn ==
    /\ turns < MaxLongTurns
    /\ \E obs \in Observations, output \in Outputs, parsed \in LongParses :
          Predict(obs, NoFault, output, parsed)

LongNext == LongTurn

LongSpec == LongInit /\ [][LongNext]_vars

\* The editor view alone: any file of up to MaxChars characters, any page size
\* up to MaxPageSize, the session scrolling and the view being rendered.
agent_vars == <<model, temperature, chat_history, interrupt, scratchpad,
                current_model, event_log, queries, turns, faults, notes,
                extracted, at_return, last>>

Lines == splitlines(editor.lines)

EditorInit ==
    /\ AgentInit
    /\ model = "gpt4-o" /\ temperature = 6
    /\ editor \in [lines : Contents, page : {0}]
    /\ PAGE_SIZE \in PageSizes
    /\ views = <<>>

\* The session's scroll commands set the page, up to one past the last.
Scroll ==
    /\ \E page \in 0..(LastIdx(Len(Lines), PAGE_SIZE) + 1) :
          /\ page # editor.page
          /\ editor' = [editor EXCEPT !.page = page]
    /\ UNCHANGED <<agent_vars, PAGE_SIZE, views>>

\* line 100: the view of the file at its current page is rendered
Render ==
    /\ editor.page \notin DOMAIN views
    /\ views' = (editor.page :> format_editor_entry(Path, editor, PAGE_SIZE)) @@ views
    /\ UNCHANGED <<agent_vars, editor, PAGE_SIZE>>

EditorNext == Scroll \/ Render

EditorSpec == EditorInit /\ [][EditorNext]_vars

\* ====================================================================
\* Properties
\* ====================================================================
\* predict has been invoked and nothing has touched the agent since.
Turned == at_return /\ last.result.tag # "none"
Supported == model \in supported_models

\* The turn ran to its return statement at line 220.
Normal ==
    /\ Turned /\ Supported
    /\ last.fault = NoFault
    /\ ~last.parsed.raises /\ last.parsed.thought # <<>> /\ last.parsed.action # <<>>

\* The model's output failed parsing: parse_response raised something other than
\* an interruption, or gave back an empty thought or action.
ParseFailed ==
    /\ Turned /\ Supported /\ last.parseRun
    /\ \/ last.fault # NoFault /\ last.fault.at = "parse"
             /\ last.fault.kind # "KeyboardInterrupt"
       \/ /\ last.fault = NoFault
          /\ last.parsed.raises \/ last.parsed.thought = <<>>
                \/ last.parsed.action = <<>>

\* A collaborator raised exception `kind` in the try block, outside parse_response.
RaisedOutsideParse(kind) ==
    /\ Turned /\ Supported
    /\ last.fault # NoFault /\ last.fault.kind = kind /\ last.fault.at # "parse"

ErrorRecord ==
    [type |-> "Error", content |-> FaultMessage, producer |-> AgentName,
     consumer |-> "none"]

IsPrefix(xs, ys) == Len(xs) <= Len(ys) /\ xs = SubSeq(ys, 1, Len(xs))

\* C1: a RuntimeError, a RetryError or any other exception (not a Hallucination,
\* not a KeyboardInterrupt) raised in a turn outside response parsing makes the
\* turn append exactly one Error record {type, content, producer, consumer} to
\* the event log and return action exit_error, exit_api and exit_error
\* respectively; a turn that ends Normal appends no record.
C1_FailureLogged ==
    /\ \A kind \in {"RuntimeError", "RetryError", "Exception"} :
          RaisedOutsideParse(kind) =>
              /\ event_log = Append(last.events0, ErrorRecord)
              /\ last.result.tag = "returned"
              /\ last.result.action =
                    (IF kind = "RetryError" THEN <<"exit_api">> ELSE <<"exit_error">>)
    /\ Normal => event_log = last.events0

C1_Witness ==
    /\ RaisedOutsideParse("RetryError") /\ last.fault.at = "query"
    /\ last.result.action = <<"exit_api">>
    /\ Len(event_log) = 1

\* C2: with a model that is not supported, predict returns a tagged failure
\* outcome to its caller and appends exactly one record to the event log.
C2_UnsupportedReturnsAndLogs ==
    (Turned /\ ~Supported) =>
        /\ last.result.tag = "returned"
        /\ event_log = Append(last.events0, ErrorRecord)

\* C3: with a model that is not supported the turn fails before any side
\* effect: chat history, the pending interrupt note, the stored scratchpad and
\* the temperature are as they were, no model is built and none is queried.
C3_UnsupportedNoSideEffect ==
    (Turned /\ ~Supported) =>
        /\ chat_history = last.history0
        /\ interrupt = last.interrupt0
        /\ scratchpad = last.scratchpad0
        /\ current_model = NoModel
        /\ queries = <<>>
        /\ last.queried = 0

C3_Witness ==
    /\ Turned /\ ~Supported
    /\ interrupt \in Notes
    /\ last.result.tag = "raised"

\* C4: when the model's output fails parsing the turn returns the sentinel
\* thought "hallucination", action "hallucination" instead of raising, appends
\* no record to the event log and no assistant record to chat history.
C4_HallucinationSentinel ==
    ParseFailed =>
        /\ last.result.tag = "returned"
        /\ last.result.thought = <<"hallucination">>
        /\ last.result.action = <<"hallucination">>
        /\ event_log = last.events0
        /\ IsPrefix(chat_history, last.historyObs)

C4_Witness ==
    /\ ParseFailed /\ ~last.parsed.raises /\ last.parsed.thought = <<>>
    /\ last.result.action = <<"hallucination">>
    /\ Len(last.history0) > 0

Max(a, b) == IF a >= b THEN a ELSE b

\* C5 as claimed: after a turn whose output fails parsing, the length of chat
\* history equals its length right after the observation was appended, the
\* length before the turn plus one, whatever the history and observations.
C5_LengthIsBeforePlusOne ==
    ParseFailed =>
        /\ Len(chat_history) = Len(last.historyObs)
        /\ Len(chat_history) = Len(last.history0) + 1

\* C5 as amended: after a turn whose output fails parsing, chat history is as
\* it was when the model was queried: its length is the length before the turn
\* plus one when the recovery step did not fire in the turn, and that less the
\* records recovery removed (six, or all of them) when it did.
C5_LengthIsLengthAtQuery ==
    ParseFailed =>
        /\ chat_history = last.historyQuery
        /\ Len(chat_history) =
              (IF last.fired THEN Max(Len(last.history0) + 1 - 6, 0)
               ELSE Len(last.history0) + 1)

C5_Witness ==
    /\ ParseFailed /\ ~last.parsed.raises /\ last.parsed.action = <<>>
    /\ ~last.fired
    /\ Len(last.history0) = 4 /\ Len(chat_history) = 5

\* C6: in every reachable state every assistant record of chat history has a
\* non-empty thought and a non-empty action.
C6_AssistantRecordsComplete ==
    \A i \in 1..Len(chat_history) :
        chat_history[i].role = "assistant" =>
            /\ chat_history[i].thought \notin {<<>>, None}
            /\ chat_history[i].action \notin {<<>>, None}

C6_Witness ==
    /\ ParseFailed /\ ~last.parsed.raises /\ last.parsed.action = <<>>
    /\ Len(chat_history) = 3
    /\ chat_history[2].role = "assistant"

\* C7 as claimed: whenever the recovery step fires it removes exactly the six
\* most recent records, leaving the earlier prefix, at every history length at
\* which it can fire.
C7_RemovesExactlySix ==
    (Turned /\ last.fired) =>
        /\ Len(last.historyQuery) = Len(last.historyObs) - 6
        /\ IsPrefix(last.historyQuery, last.historyObs)

\* C7 as amended: whenever the recovery step fires it removes the six most
\* recent records when chat history holds at least six, and every record when
\* it holds fewer (lengths 3 to 5); what remains is the unchanged earlier
\* prefix in the same order.
C7_RemovesUpToSix ==
    (Turned /\ last.fired) =>
        /\ Len(last.historyObs) >= 3
        /\ Len(last.historyQuery) = Max(Len(last.historyObs) - 6, 0)
        /\ IsPrefix(last.historyQuery, last.historyObs)

C7_Witness ==
    /\ Turned /\ last.fired
    /\ Len(last.historyObs) = 9
    /\ last.historyQuery = SubSeq(last.history0, 1, 3)

\* C8: when the recovery step fires in a turn the temperature of that turn's
\* query is the turn's starting temperature raised by exactly 0.2 if that was
\* below 0.8 and unchanged if it was at or above 0.8; when recovery does not
\* fire the query's temperature is the starting temperature.
C8_QueryTemperature ==
    (Turned /\ Supported /\ last.queried = 1) =>
        /\ queries # <<>>
        /\ queries[Len(queries)] = current_model.temperature
        /\ queries[Len(queries)] =
              (IF last.fired /\ temperature < 8 THEN temperature + 2
               ELSE temperature)

C8_Witness ==
    /\ Turned /\ last.fired /\ last.queried = 1
    /\ temperature = 6
    /\ queries[Len(queries)] = 8

\* C9: the escalation persists across turns: the temperature a turn queries
\* the model with is never lower than that of any earlier query of the agent.
C9_TemperatureNeverDrops ==
    \A i, j \in 1..Len(queries) : i < j => queries[i] <= queries[j]

\* C10: a KeyboardInterrupt raised at any point of a turn (rendering, assembly,
\* query, parsing, commit) leaves predict unmodified: nothing is returned, it
\* is not turned into a hallucination or exit outcome, and no record is
\* appended to the event log.
C10_InterruptPropagates ==
    (Turned /\ Supported /\ last.fault # NoFault
            /\ last.fault.kind = "KeyboardInterrupt") =>
        /\ last.result.tag = "raised"
        /\ last.result.exc = "KeyboardInterrupt"
        /\ last.result.action = NoText
        /\ event_log = last.events0

C10_Witness ==
    /\ Turned /\ Supported
    /\ last.fault = [kind |-> "KeyboardInterrupt", at |-> "parse"]
    /\ last.result.tag = "raised"
    /\ Len(chat_history) = 3

\* -------------------------------------------------------------- editor view
\* The number a line's prefix reads as.
DigitValue(c) == CHOOSE d \in 0..9 : Digit(d) = c
RECURSIVE Decimal(_)
Decimal(digits) ==
    IF digits = <<>> THEN 0
    ELSE 10 * Decimal(SubSeq(digits, 1, Len(digits) - 1))
         + DigitValue(digits[Len(digits)])

FileLines == Len(Lines)
LastPage == FileLines \div PAGE_SIZE
RenderedPages == {k \in DOMAIN views : k <= LastPage}
EmittedOn(k) ==
    {Decimal(views[k].window_lines[i].number) :
        i \in 1..Len(views[k].window_lines)}

\* C14: for a file of N lines and page size P >= 1, the window rendered for a
\* page k in [0, N div P] holds exactly P lines when k < N div P and N mod P
\* lines when k = N div P; the banner gives start k*P, end k*P + the window's
\* length and total N; the i-th line of the window is prefixed with k*P + i,
\* at least four digits wide, and is that line of the file.
C14_Pagination ==
    \A k \in RenderedPages :
        LET window == views[k].window_lines IN
        /\ Len(window) = (IF k < LastPage THEN PAGE_SIZE
                          ELSE FileLines % PAGE_SIZE)
        /\ views[k].startline = k * PAGE_SIZE
        /\ views[k].endline = k * PAGE_SIZE + Len(window)
        /\ views[k].total = FileLines
        /\ \A i \in 1..Len(window) :
              /\ Decimal(window[i].number) = k * PAGE_SIZE + (i - 1)
              /\ Len(window[i].number) >= 4
              /\ window[i].line = Lines[k * PAGE_SIZE + i]

C14_Witness ==
    /\ FileLines = 3 /\ PAGE_SIZE = 2
    /\ 1 \in DOMAIN views
    /\ Len(views[1].window_lines) = 1
    /\ views[1].window_lines[1].number = <<"0", "0", "0", "2">>
    /\ views[1].endline = 3

\* C20: for a file of N lines and page size P >= 1 the windows of pages
\* 0..N div P partition the file: every line index in [0, N) is emitted on
\* exactly one page, page index div P, no other index is emitted, and no
\* banner's end line exceeds N.
C20_Partition ==
    /\ \A k \in RenderedPages :
          /\ EmittedOn(k) \subseteq 0..(FileLines - 1)
          /\ Cardinality(EmittedOn(k)) = Len(views[k].window_lines)
          /\ \A index \in EmittedOn(k) : index \div PAGE_SIZE = k
          /\ views[k].endline <= FileLines
    /\ (0..LastPage) \subseteq DOMAIN views =>
          \A index \in 0..(FileLines - 1) :
              {k \in 0..LastPage : index \in EmittedOn(k)} = {index \div PAGE_SIZE}

C20_Witness ==
    /\ FileLines = 5 /\ PAGE_SIZE = 2
    /\ (0..2) \subseteq DOMAIN views
    /\ EmittedOn(2) = {4}

\* --------------------------------------------------- observation and note
\* The user record of the most recent turn's observation.
ObservationRecord ==
    [role |-> "user", content |-> last.observation, agent |-> AgentName]
WithObservation == Append(last.history0, ObservationRecord)

InterruptedAtQuery ==
    /\ Turned /\ Supported
    /\ last.fault = [kind |-> "KeyboardInterrupt", at |-> "query"]

\* C11 as claimed: when a turn is aborted by an interruption during the model
\* query, chat history is the history before the turn with the one user
\* observation record appended.
C11_OnlyObservationAdded ==
    InterruptedAtQuery => chat_history = WithObservation

\* C11 as amended: when a turn is aborted by an interruption during the model
\* query, chat history is the history before the turn with the observation
\* record appended when the recovery step did not fire in the turn, and that
\* history cut by the recovery step (its last six records, or all) when it did.
C11_ObservationThenRecovery ==
    InterruptedAtQuery =>
        chat_history =
            (IF last.fired
             THEN SubSeq(WithObservation, 1, Max(Len(WithObservation) - 6, 0))
             ELSE WithObservation)

C11_Witness ==
    /\ InterruptedAtQuery /\ ~last.fired
    /\ Len(last.history0) = 2
    /\ chat_history[3].content = <<MARKER>>

\* The turn ended Normal, as a hallucination, or with a classified failure
\* raised at or after the query.
EndedAtOrAfterQuery ==
    /\ Turned /\ Supported
    /\ \/ last.fault = NoFault
       \/ /\ last.fault # NoFault
          /\ last.fault.kind # "KeyboardInterrupt"
          /\ last.fault.at \in {"query", "parse", "commit"}

\* C12 as claimed: for every turn with a supported model that ends Normal, as
\* a hallucination or with a classified failure raised at or after the query,
\* chat history at the end of the turn holds the user record of this turn's
\* observation.
C12_ObservationRecorded ==
    EndedAtOrAfterQuery =>
        \E i \in 1..Len(chat_history) : chat_history[i] = ObservationRecord

\* C12 as amended: for every such turn in which the recovery step did not
\* fire, chat history at the end of the turn holds the user record of this
\* turn's observation, right after the records it held before the turn; when
\* the recovery step fired, that record is among the records it removed and
\* what is left of the earlier history is a prefix of it.
C12_ObservationRecordedUnlessRecovered ==
    EndedAtOrAfterQuery =>
        /\ ~last.fired =>
              /\ Len(chat_history) > Len(last.history0)
              /\ SubSeq(chat_history, 1, Len(last.history0) + 1) = WithObservation
        /\ last.fired =>
              /\ Len(last.historyQuery) <= Len(last.history0)
              /\ IsPrefix(last.historyQuery, last.history0)

C12_Witness ==
    /\ EndedAtOrAfterQuery /\ ~last.fired
    /\ last.fault = [kind |-> "RetryError", at |-> "query"]
    /\ Len(chat_history) = 3
    /\ chat_history[3] = ObservationRecord

C15_FiresIffBothObservationsFailed ==
    (Turned /\ Supported /\ last.fault = NoFault) =>
        (last.fired <=>
            ContainsMarker(last.observation) /\ ContainsMarker(last.previous))

\* C16: a turn whose result is Hallucination leaves the stored scratchpad
\* unchanged.
C16_HallucinationKeepsScratchpad ==
    ParseFailed => scratchpad = last.scratchpad0

\* C17: on a Normal turn the stored scratchpad becomes exactly the parsed
\* scratchpad when the response carries one and is unchanged when it carries
\* none; the scratchpad placed in a turn's prompt is the one stored before the
\* turn, and the stored scratchpad is always the value of the most recent turn
\* that extracted one (None before any).
C17_ScratchpadReplaced ==
    /\ scratchpad = extracted
    /\ Normal =>
          scratchpad = (IF Truthy(last.parsed.scratchpad)
                        THEN last.parsed.scratchpad ELSE last.scratchpad0)
    /\ (Turned /\ Supported /\ last.queried = 1) =>
          last.messages[Len(last.messages)].content.scratchpad = last.scratchpad0

C17_Witness ==
    /\ Normal
    /\ last.scratchpad0 = <<"s1">>
    /\ last.messages[Len(last.messages)].content.scratchpad = <<"s1">>
    /\ last.parsed.scratchpad = <<"s2">>
    /\ scratchpad = <<"s2">>

\* ------------------------------------------------------- messages, results
QueriedWithList == Turned /\ model = "gpt4-o" /\ last.queried = 1

\* The messages are the records of chat history as it was at the query, in
\* order, followed by one final user prompt.
HistoryThenPrompt ==
    LET m == last.messages
        n == Len(m)
    IN  /\ n = Len(last.historyQuery) + 1
        /\ SubSeq(m, 1, n - 1) = last.historyQuery
        /\ m[n].role = "user"
        /\ m[n].content.template = "openai_last_user_prompt_template_v3"

\* C18 as claimed: for model "gpt4-o" the messages handed to query are the
\* user/assistant records of chat history in order followed by one final user
\* prompt, and no two adjacent messages have the same role.
C18_MessagesAlternate ==
    QueriedWithList =>
        /\ HistoryThenPrompt
        /\ \A i \in 1..(Len(last.messages) - 1) :
              last.messages[i].role # last.messages[i + 1].role

\* C18 as amended: for model "gpt4-o" the messages handed to query are the
\* user/assistant records of chat history in order followed by one final user
\* prompt; the list does not alternate: when the recovery step did not fire in
\* the turn its last two messages are both of role user, the record of this
\* turn's observation and the prompt.
C18_MessagesAreHistoryThenPrompt ==
    QueriedWithList =>
        /\ HistoryThenPrompt
        /\ ~last.fired =>
              LET n == Len(last.messages)
              IN  /\ n >= 2
                  /\ last.messages[n - 1] = ObservationRecord
                  /\ last.messages[n].role = last.messages[n - 1].role

C18_Witness ==
    /\ QueriedWithList /\ ~last.fired
    /\ Len(last.messages) = 4
    /\ last.messages[2].role = "assistant"
    /\ last.messages[3].role = "user"

\* An assistant record was appended to chat history in the turn.
AssistantAppended ==
    /\ Len(chat_history) = Len(last.historyQuery) + 1
    /\ chat_history[Len(chat_history)].role = "assistant"

\* C19: every invocation of predict with a supported model ends in exactly one
\* of Normal, the Hallucination sentinel, an exit_error outcome, an exit_api
\* outcome or a propagated KeyboardInterrupt; it queries the model at most
\* once; and an assistant record is appended in the turn if and only if the
\* result is Normal, in which case it is the last record of history and holds
\* the raw output, thought and action that are returned.
C19_OneResultOneQuery ==
    (Turned /\ Supported) =>
        LET returnedNormal ==
                /\ last.result.tag = "returned"
                /\ last.result.action \notin
                       {<<"hallucination">>, <<"exit_error">>, <<"exit_api">>}
        IN  /\ \/ last.result.tag = "raised" /\ last.result.exc = "KeyboardInterrupt"
               \/ last.result.tag = "returned"
            /\ Len(queries) - Len(last.queries0) \in {0, 1}
            /\ AssistantAppended <=> returnedNormal
            /\ returnedNormal =>
                  chat_history[Len(chat_history)] =
                      AssistantRecord(last.result.output, last.result.thought,
                                      last.result.action)

====
